---- MODULE Spec2Model ----
(***************************************************************************)
(* Model of the generic assembler core of gosubc (subc/asm/asm.go):        *)
(* the prog/section/sym/relocation bookkeeping, the emission helpers and   *)
(* the Assemble entry point.                                               *)
(*                                                                         *)
(* Go pointers are modelled as indices into heaps kept inside prog:         *)
(* prog.smem holds the section records, prog.ymem the symbol records and   *)
(* prog.rmem the relocation records; index 0 is the nil pointer.  Every    *)
(* list of pointers of                                                     *)
(* the source (osyms, usyms, section.syms, section.labels, ...) is a       *)
(* sequence of such indices, so two entries are the same record exactly    *)
(* when they are the same index.                                           *)
(***************************************************************************)
EXTENDS Integers, Sequences, FiniteSets, TLC

VARIABLES
    phase,  \* where Assemble is: "Init", "Encoding", "Writing", "Done", "Failed"
    arch,   \* Assemble's arch argument
    os,     \* Assemble's os_ argument
    prog,   \* the *prog built by newprog, with the two heaps
    sect,   \* as.sect, the current section (index into prog.smem)
    err,    \* the errors Assemble has returned, in order
    w,      \* the bufio.Writer wrapped around output: bytes buffered
    sink,   \* number of bytes the output io.Writer has received
    ran,    \* which of the collaborators ran: [enc, wr, flush]
    fuel,   \* calls the encoder may still make (NoLimit: any number)
    last,   \* the last call: its name, whether it returned normally, and
            \* whether it left the program and the current section as they were
    fn      \* the activation of a helper (align2, isIdent) that is running:
            \* its arguments, its locals and where it is

vars == <<phase, arch, os, prog, sect, err, w, sink, ran, fuel, last, fn>>

(***************************************************************************)
(* Bounds of the model.                                                    *)
(***************************************************************************)
MaxSects == 2      \* user sections created by addsect
MaxSyms == 2       \* symbol records allocated
MaxInst == 2       \* instruction records over all sections
MaxPc == 1         \* largest value the encoder gives a position counter
MaxOut == 3        \* bytes the object writer produces
MaxSteps == 3      \* calls of the encoder in the runs that bound their length
BufSize == 2       \* capacity of the bufio.Writer (4096 in the library)

(***************************************************************************)
(* Program constants.                                                      *)
(***************************************************************************)
aNONE == 0
aREG == 1
aVAR == 2
aPTR == 3

sNONE == 0
sLABEL == 1
sBSS == 2
sUND == 3

stNONE == 0
stNOTE == 1
stPROGBITS == 2
stNOBITS == 3

opNOP == 0
opSTRZ == 1
opQUAD == 2
opBYTES == 6

nil == 0

(***************************************************************************)
(* Input sets.                                                             *)
(***************************************************************************)
SymNames == {"v", "L"}
MapNames == SymNames \cup {""}
Kinds == {aREG, aVAR, aPTR}
Sizes == {1, 2}
Offs == {0, 1}
Pcs == {0, 1}
ReservedNames == {".text", ".data", ".rela.text", ".rela.data",
                  ".bss", ".shstrtab", ".strtab", ".symtab"}
UserNames == {"extra", "aux"}
SectNames == {"", ".text", ".symtab"} \cup UserNames
AllSectNames == ReservedNames \cup {""} \cup UserNames
Flags == {"wa", "ax"}
TypeKeywords == {"progbits", "nobits", "note"}
TypeInputs == {"progbits", "note", "bogus"}
AllTypeInputs == TypeKeywords \cup {"bogus", ""}
Archs == {"amd64", "arm"}
OSs == {"linux", "plan9"}
EmitArgs == {<<>>, <<[kind |-> "byte", val |-> 1]>>,
             <<[kind |-> "nil", val |-> 0], [kind |-> "int", val |-> 257]>>,
             <<[kind |-> "uint16", val |-> 258]>>,
             <<[kind |-> "uint32", val |-> 1]>>,
             <<[kind |-> "uint64", val |-> 1]>>,
             <<[kind |-> "byte", val |-> 1], [kind |-> "string", val |-> 0]>>}
Aligns == {1, 2, 4}
Fills == {0, 144}
Strs == {<<>>, <<97>>, <<97, 98>>}
Bufs == {<<>>, <<1>>, <<1, 2, 3>>}

(***************************************************************************)
(* Construction.                                                           *)
(***************************************************************************)
newsection(name, flags, typ) ==
    [name |-> name, flags |-> flags, typ |-> typ,
     inst |-> <<>>, syms |-> <<>>, vars |-> <<>>, labels |-> <<>>,
     blocks |-> <<>>, strings |-> <<>>, relocs |-> <<>>,
     size |-> 0, blockalign |-> 0, blocksize |-> 0, pc |-> 0]

newprog(a, o) ==
    [arch |-> a, os |-> o, endian |-> "LittleEndian",
     syms |-> [n \in MapNames |-> nil],
     text |-> 1, data |-> 2, bss |-> 3,
     sects |-> <<>>, osyms |-> <<>>, usyms |-> <<>>, relocs |-> <<>>,
     rmem |-> <<>>,
     smem |-> <<newsection(".text", "ax", stPROGBITS),
                newsection(".data", "wa", stPROGBITS),
                newsection(".bss", "wa", stNOBITS)>>,
     ymem |-> <<>>]

\* the zero value &sym{}
sym0 ==
    [sect |-> nil, typ |-> sNONE, name |-> "", size |-> 0, off |-> 0,
     pc |-> 0, allocated |-> FALSE, exported |-> FALSE]

\* The receiver of the methods below: the embedded *prog and the current
\* section.
as == [prog |-> prog, sect |-> sect]

\* The outcome of one call on the assembler: the program and the current
\* section it leaves, the pointer it returns and the diagnostic it panics
\* with (<<>> when it returns normally).
Ret(p, s, r, d) == [prog |-> p, sect |-> s, ret |-> r, diag |-> d]

\* errorf panics with the formatted message (the position prefix is dropped);
\* whatever the caller changed before the panic stays changed.
errorf(p, s, text, arg) == Ret(p, s, nil, <<text, arg>>)

(***************************************************************************)
(* Symbol table.                                                           *)
(***************************************************************************)
\* gsym without the lookup: every call allocates a record
gsymNoLookup(a, name, s) ==
    LET q == Len(a.prog.ymem) + 1
        y == [sym0 EXCEPT !.sect = s, !.name = name, !.allocated = TRUE]
    IN  Ret([a.prog EXCEPT !.smem[s].syms = Append(@, q),
                           !.ymem = Append(@, y),
                           !.syms[name] = q,
                           !.osyms = Append(@, q)],
            a.sect, q, <<>>)

gsym(a, name, s) ==
    LET p == a.prog.syms[name] IN
    IF p # nil
    THEN Ret(a.prog, a.sect, p, <<>>)
    ELSE LET q == Len(a.prog.ymem) + 1
             y == [sym0 EXCEPT !.sect = s, !.name = name, !.allocated = TRUE]
         IN  Ret([a.prog EXCEPT !.smem[s].syms = Append(@, q),
                                !.ymem = Append(@, y),
                                !.syms[name] = q,
                                !.osyms = Append(@, q)],
                 a.sect, q, <<>>)

\* fsym without the test of the addressing mode
fsymAnyKind(a, typ, name) ==
    IF name = ""
    THEN Ret(a.prog, a.sect, nil, <<>>)
    ELSE LET s == a.prog.syms[name] IN
         IF s = nil
         THEN LET q == Len(a.prog.ymem) + 1
                  y == [sym0 EXCEPT !.typ = sUND, !.name = name,
                                    !.exported = TRUE]
              IN  Ret([a.prog EXCEPT !.usyms = Append(@, q),
                                     !.ymem = Append(@, y),
                                     !.syms[name] = q,
                                     !.osyms = Append(@, q)],
                      a.sect, q, <<>>)
         ELSE Ret(a.prog, a.sect, s, <<>>)

fsym(a, typ, name) ==
    IF (typ # aPTR /\ typ # aVAR) \/ name = ""
    THEN Ret(a.prog, a.sect, nil, <<>>)
    ELSE LET s == a.prog.syms[name] IN
         IF s = nil
         THEN LET q == Len(a.prog.ymem) + 1
                  y == [sym0 EXCEPT !.typ = sUND, !.name = name,
                                    !.exported = TRUE]
              IN  Ret([a.prog EXCEPT !.usyms = Append(@, q),
                                     !.ymem = Append(@, y),
                                     !.syms[name] = q,
                                     !.osyms = Append(@, q)],
                      a.sect, q, <<>>)
         ELSE Ret(a.prog, a.sect, s, <<>>)

addglobal(a, name) ==
    LET r == gsym(a, name, a.sect)
        p == r.ret
    IN  Ret([r.prog EXCEPT !.ymem[p].exported = TRUE], a.sect, nil, <<>>)

\* addbss without the type test: a declared name is declared again
addbssRedeclare(a, name, size, allocated) ==
    LET r == gsym(a, name, a.prog.bss)
        p == r.ret
        y == r.prog.ymem[p]
        p1 == [r.prog EXCEPT !.ymem[p].typ = sBSS,
                             !.ymem[p].size = size,
                             !.ymem[p].allocated = allocated]
        p2 == IF allocated
              THEN [p1 EXCEPT !.smem[y.sect].blocksize = @ + size]
              ELSE p1
    IN  Ret([p2 EXCEPT !.smem[p2.bss].blocks = Append(@, p)], a.sect, nil, <<>>)

addbss(a, name, size, allocated) ==
    LET r == gsym(a, name, a.prog.bss)
        p == r.ret
        y == r.prog.ymem[p]
    IN  IF y.typ = sNONE
        THEN LET p1 == [r.prog EXCEPT !.ymem[p].typ = sBSS,
                                      !.ymem[p].size = size,
                                      !.ymem[p].allocated = allocated]
                 p2 == IF allocated
                       THEN [p1 EXCEPT !.smem[y.sect].blocksize = @ + size]
                       ELSE p1
             IN  Ret([p2 EXCEPT !.smem[p2.bss].blocks = Append(@, p)],
                     a.sect, nil, <<>>)
        ELSE errorf(r.prog, a.sect, "already declared", name)

\* addlabel where a label stated again takes the new offset and position
addlabelRebind(a, name, off, pc) ==
    LET r == gsym(a, name, a.sect)
        p == r.ret
        y == r.prog.ymem[p]
    IN  IF y.typ = sLABEL
        THEN Ret([r.prog EXCEPT !.ymem[p].off = off, !.ymem[p].pc = pc],
                 a.sect, nil, <<>>)
        ELSE IF y.typ = sNONE
             THEN Ret([r.prog EXCEPT !.ymem[p].typ = sLABEL,
                                     !.ymem[p].off = off,
                                     !.ymem[p].pc = pc,
                                     !.smem[a.sect].labels = Append(@, p)],
                      a.sect, nil, <<>>)
             ELSE errorf(r.prog, a.sect, "already declared", name)

\* addlabel without the offset test: a label stated again always passes
addlabelAnyOffset(a, name, off, pc) ==
    LET r == gsym(a, name, a.sect)
        p == r.ret
        y == r.prog.ymem[p]
    IN  IF y.typ = sLABEL
        THEN Ret(r.prog, a.sect, nil, <<>>)
        ELSE IF y.typ = sNONE
             THEN Ret([r.prog EXCEPT !.ymem[p].typ = sLABEL,
                                     !.ymem[p].off = off,
                                     !.ymem[p].pc = pc,
                                     !.smem[a.sect].labels = Append(@, p)],
                      a.sect, nil, <<>>)
             ELSE errorf(r.prog, a.sect, "already declared", name)

\* addlabel that defines a name fsym has made an undefined external
addlabelPromote(a, name, off, pc) ==
    LET r == gsym(a, name, a.sect)
        p == r.ret
        y == r.prog.ymem[p]
    IN  IF y.typ = sLABEL
        THEN IF y.off # off
             THEN errorf(r.prog, a.sect, "already declared", name)
             ELSE Ret(r.prog, a.sect, nil, <<>>)
        ELSE IF y.typ = sNONE \/ y.typ = sUND
             THEN Ret([r.prog EXCEPT !.ymem[p].typ = sLABEL,
                                     !.ymem[p].off = off,
                                     !.ymem[p].pc = pc,
                                     !.smem[a.sect].labels = Append(@, p)],
                      a.sect, nil, <<>>)
             ELSE errorf(r.prog, a.sect, "already declared", name)

addlabel(a, name, off, pc) ==
    LET r == gsym(a, name, a.sect)
        p == r.ret
        y == r.prog.ymem[p]
    IN  IF y.typ = sLABEL
        THEN IF y.off # off
             THEN errorf(r.prog, a.sect, "already declared", name)
             ELSE Ret(r.prog, a.sect, nil, <<>>)
        ELSE IF y.typ = sNONE
             THEN Ret([r.prog EXCEPT !.ymem[p].typ = sLABEL,
                                     !.ymem[p].off = off,
                                     !.ymem[p].pc = pc,
                                     !.smem[a.sect].labels = Append(@, p)],
                      a.sect, nil, <<>>)
             ELSE errorf(r.prog, a.sect, "already declared", name)

(***************************************************************************)
(* Section store.                                                          *)
(***************************************************************************)
\* the first section of as.sects named name, nil when there is none
findsect(p, name) ==
    LET hits == {i \in 1..Len(p.sects) : p.smem[p.sects[i]].name = name} IN
    IF hits = {} THEN nil
    ELSE p.sects[CHOOSE i \in hits : \A j \in hits : i <= j]

xtypOf(typ) ==
    CASE typ = "progbits" -> stPROGBITS
      [] typ = "nobits" -> stNOBITS
      [] typ = "note" -> stNOTE
      [] OTHER -> stNONE

\* addsect without the search: every call appends a section
addsectAlwaysAppend(a, name, flags, typ) ==
    IF name \in ReservedNames
    THEN errorf(a.prog, a.sect, "can't define a pre-defined section", name)
    ELSE IF name = ""
    THEN errorf(a.prog, a.sect, "no section name specified", "")
    ELSE IF typ \notin TypeKeywords
    THEN errorf(a.prog, a.sect, "unknown section type", typ)
    ELSE LET q == Len(a.prog.smem) + 1
         IN  Ret([a.prog EXCEPT
                     !.smem = Append(@, newsection(name, flags, xtypOf(typ))),
                     !.sects = Append(@, q)],
                 q, nil, <<>>)

\* addsect that tests the type keyword only when it creates the section
addsectLateTypeTest(a, name, flags, typ) ==
    IF name \in ReservedNames
    THEN errorf(a.prog, a.sect, "can't define a pre-defined section", name)
    ELSE IF name = ""
    THEN errorf(a.prog, a.sect, "no section name specified", "")
    ELSE LET s == findsect(a.prog, name)
             q == Len(a.prog.smem) + 1
         IN  IF s # nil
             THEN Ret(a.prog, s, nil, <<>>)
             ELSE IF typ \notin TypeKeywords
             THEN errorf(a.prog, a.sect, "unknown section type", typ)
             ELSE Ret([a.prog EXCEPT
                          !.smem = Append(@, newsection(name, flags, xtypOf(typ))),
                          !.sects = Append(@, q)],
                      q, nil, <<>>)

addsect(a, name, flags, typ) ==
    IF name \in ReservedNames
    THEN errorf(a.prog, a.sect, "can't define a pre-defined section", name)
    ELSE IF name = ""
    THEN errorf(a.prog, a.sect, "no section name specified", "")
    ELSE IF typ \notin TypeKeywords
    THEN errorf(a.prog, a.sect, "unknown section type", typ)
    ELSE LET xtyp == xtypOf(typ)
             s == findsect(a.prog, name)
             q == Len(a.prog.smem) + 1
         IN  IF s # nil
             THEN Ret(a.prog, s, nil, <<>>)
             ELSE Ret([a.prog EXCEPT
                          !.smem = Append(@, newsection(name, flags, xtyp)),
                          !.sects = Append(@, q)],
                      q, nil, <<>>)

(***************************************************************************)
(* Instruction and relocation recorder, layout helpers.                    *)
(***************************************************************************)
Val(k, v) == [kind |-> k, val |-> v]

\* binary.Write of an unsigned integer of n bytes in little-endian order
RECURSIVE le(_, _)
le(v, n) == IF n = 0 THEN <<>> ELSE <<v % 256>> \o le(v \div 256, n - 1)

RECURSIVE encode(_, _, _)
encode(a, v, i) ==
    IF i > Len(v) THEN Ret(a.prog, a.sect, <<>>, <<>>)
    ELSE LET k == v[i].kind
             b == CASE k = "nil" -> <<>>
                    [] k = "byte" -> <<v[i].val % 256>>
                    [] k = "int" -> <<v[i].val % 256>>
                    [] k = "uint16" -> le(v[i].val, 2)
                    [] k = "uint32" -> le(v[i].val, 4)
                    [] k = "uint64" -> le(v[i].val, 8)
                    [] OTHER -> <<>>
         IN  IF k \notin {"nil", "byte", "int", "uint16", "uint32", "uint64"}
             THEN errorf(a.prog, a.sect, "unknown emit type", k)
             ELSE LET r == encode(a, v, i + 1) IN
                  IF r.diag # <<>> THEN r
                  ELSE Ret(a.prog, a.sect, b \o r.ret, <<>>)

\* code that skips a value of a type it does not know
RECURSIVE encodeKnown(_, _, _)
encodeKnown(a, v, i) ==
    IF i > Len(v) THEN Ret(a.prog, a.sect, <<>>, <<>>)
    ELSE IF v[i].kind \notin {"nil", "byte", "int", "uint16", "uint32", "uint64"}
    THEN encodeKnown(a, v, i + 1)
    ELSE LET r == encodeKnown(a, SubSeq(v, i + 1, Len(v)), 1)
             h == encode(a, <<v[i]>>, 1)
         IN  Ret(a.prog, a.sect, h.ret \o r.ret, <<>>)

codeSkipUnknown(a, v) == encodeKnown(a, v, 1)

code(a, v) == encode(a, v, 1)

emit(a, op, v) ==
    LET c == code(a, v)
        s == a.sect
    IN  IF c.diag # <<>> THEN c
        ELSE Ret([a.prog EXCEPT
                     !.smem[s].inst = Append(@, [op |-> op, code |-> c.ret]),
                     !.smem[s].size = @ + Len(c.ret)],
                 a.sect, nil, <<>>)

\* addrel that files the relocation in the list of the program only
addrelGlobalOnly(a, op) ==
    LET s == a.sect
        p1 == [a.prog EXCEPT !.smem[s].inst = Append(@, [op |-> op, code |-> <<>>])]
        rl == [section |-> s, inst |-> Len(p1.smem[s].inst),
               off |-> p1.smem[s].size, pc |-> p1.smem[s].pc, isize |-> 0,
               reltyp |-> 0, relname |-> "", rel |-> 0]
    IN  Ret([p1 EXCEPT !.rmem = Append(@, rl),
                       !.relocs = Append(@, Len(p1.rmem) + 1)],
            a.sect, nil, <<>>)

addrel(a, op) ==
    LET s == a.sect
        p1 == [a.prog EXCEPT !.smem[s].inst = Append(@, [op |-> op, code |-> <<>>])]
        i == Len(p1.smem[s].inst)
        q == Len(p1.rmem) + 1
        rl == [section |-> s, inst |-> i, off |-> p1.smem[s].size,
               pc |-> p1.smem[s].pc, isize |-> 0, reltyp |-> 0,
               relname |-> "", rel |-> 0]
        p2 == [p1 EXCEPT !.rmem = Append(@, rl), !.relocs = Append(@, q)]
    IN  Ret([p2 EXCEPT !.smem[s].relocs = Append(@, p2.relocs[Len(p2.relocs)])],
            a.sect, nil, <<>>)

\* bytes that appends the instruction and leaves the size alone
bytesNoSize(p, s, buf) ==
    [p EXCEPT !.smem[s].inst = Append(@, [op |-> opBYTES, code |-> buf])]

\* (s *section) bytes(buf), on section s of program p
bytes(p, s, buf) ==
    [p EXCEPT !.smem[s].size = @ + Len(buf),
              !.smem[s].inst = Append(@, [op |-> opBYTES, code |-> buf])]

\* strz that does not count the terminating NUL in the size of the section
strzNoNul(p, s, str) ==
    [p EXCEPT !.smem[s].strings =
                  Append(@, [off |-> p.smem[s].size, size |-> Len(str) + 1,
                             pc |-> p.smem[s].pc]),
              !.smem[s].size = @ + Len(str),
              !.smem[s].inst = Append(@, [op |-> opSTRZ, code |-> str])]

\* (s *section) strz(str), on section s of program p
strz(p, s, str) ==
    [p EXCEPT !.smem[s].strings =
                  Append(@, [off |-> p.smem[s].size, size |-> Len(str) + 1,
                             pc |-> p.smem[s].pc]),
              !.smem[s].size = @ + Len(str) + 1,
              !.smem[s].inst = Append(@, [op |-> opSTRZ, code |-> Append(str, 0)])]

\* alignpc that moves the position counter past the padding
alignpcAdvance(a, align, value) ==
    LET size == (align - (a.prog.smem[a.sect].pc % align)) % align
        buf == [i \in 1..size |-> value]
    IN  Ret([bytes(a.prog, a.sect, buf) EXCEPT !.smem[a.sect].pc = @ + size],
            a.sect, nil, <<>>)

alignpc(a, align, value) ==
    LET size == (align - (a.prog.smem[a.sect].pc % align)) % align
        buf == [i \in 1..size |-> value]
    IN  Ret(bytes(a.prog, a.sect, buf), a.sect, nil, <<>>)

RECURSIVE TotalInst(_, _)
TotalInst(p, i) ==
    IF i = 0 THEN 0 ELSE Len(p.smem[i].inst) + TotalInst(p, i - 1)

(***************************************************************************)
(* Steps of the encoder.  A call that panics with a diagnostic is          *)
(* recovered by Assemble's deferred function, which makes the diagnostic   *)
(* the returned error.                                                     *)
(***************************************************************************)
NoLimit == 0 - 1

\* a recover that records the diagnostic and lets the run go on
CallGoOn(op, r) ==
    /\ phase = "Encoding"
    /\ fuel # 0
    /\ Len(r.prog.ymem) <= MaxSyms
    /\ Len(r.prog.sects) <= MaxSects
    /\ TotalInst(r.prog, Len(r.prog.smem)) <= MaxInst
    /\ prog' = r.prog
    /\ sect' = r.sect
    /\ fuel' = IF fuel = NoLimit THEN NoLimit ELSE fuel - 1
    /\ last' = [op |-> op, ok |-> r.diag = <<>>,
                same |-> (r.prog = prog /\ r.sect = sect)]
    /\ IF r.diag = <<>>
       THEN UNCHANGED err
       ELSE err' = Append(err, r.diag)
    /\ UNCHANGED <<phase, arch, os, w, sink, ran, fn>>

Call(op, r) ==
    /\ phase = "Encoding"
    /\ fuel # 0
    /\ Len(r.prog.ymem) <= MaxSyms
    /\ Len(r.prog.sects) <= MaxSects
    /\ TotalInst(r.prog, Len(r.prog.smem)) <= MaxInst
    /\ prog' = r.prog
    /\ sect' = r.sect
    /\ fuel' = IF fuel = NoLimit THEN NoLimit ELSE fuel - 1
    /\ last' = [op |-> op, ok |-> r.diag = <<>>,
                same |-> (r.prog = prog /\ r.sect = sect)]
    /\ IF r.diag = <<>>
       THEN UNCHANGED <<phase, err>>
       ELSE phase' = "Failed" /\ err' = Append(err, r.diag)
    /\ UNCHANGED <<arch, os, w, sink, ran, fn>>

\* the sections the symbol operations are tried on
Owners == {sect, prog.bss}

Gsym == \E n \in SymNames, s \in Owners : Call("gsym", gsym(as, n, s))

Fsym == \E k \in Kinds, n \in MapNames : Call("fsym", fsym(as, k, n))

AddGlobal == \E n \in SymNames : Call("addglobal", addglobal(as, n))

AddBss ==
    \E n \in SymNames, z \in Sizes, al \in BOOLEAN :
        Call("addbss", addbss(as, n, z, al))

AddLabel ==
    \E n \in SymNames, o \in Offs, pc \in Pcs :
        Call("addlabel", addlabel(as, n, o, pc))

AddSect ==
    \E n \in SectNames, f \in Flags, t \in TypeInputs :
        Call("addsect", addsect(as, n, f, t))

Emit == \E v \in EmitArgs : Call("emit", emit(as, opQUAD, v))

AddRel == Call("addrel", addrel(as, opNOP))

AlignPc ==
    \E al \in Aligns, f \in Fills : Call("alignpc", alignpc(as, al, f))

Strz == \E str \in Strs : Call("strz", Ret(strz(prog, sect, str), sect, nil, <<>>))

Bytes == \E b \in Bufs : Call("bytes", Ret(bytes(prog, sect, b), sect, nil, <<>>))

\* The encoder's .text, .data and .bss directives point as.sect at a
\* predefined section.
UseText == Call("usetext", Ret(prog, prog.text, nil, <<>>))

UseData == Call("usedata", Ret(prog, prog.data, nil, <<>>))

UseBss == Call("usebss", Ret(prog, prog.bss, nil, <<>>))

\* The encoder advances the position counter of the current section.
AdvancePc ==
    /\ prog.smem[sect].pc < MaxPc
    /\ Call("advancepc", Ret([prog EXCEPT !.smem[sect].pc = @ + 1], sect, nil, <<>>))

NoLast == [op |-> "", ok |-> TRUE, same |-> TRUE]

\* The state in which the encoder starts: Assemble has run newprog for a
\* supported architecture; the encoder builds its as around the program
\* with .text as the current section.
NoCall == [f |-> "", pc |-> "done"]

Started(f) ==
    /\ phase = "Encoding"
    /\ arch = "amd64"
    /\ os = "linux"
    /\ prog = newprog(arch, os)
    /\ sect = prog.text
    /\ err = <<>>
    /\ w = 0
    /\ sink = 0
    /\ ran = [enc |-> TRUE, wr |-> FALSE, flush |-> FALSE]
    /\ fuel = f
    /\ last = NoLast

Encoding(f) ==
    /\ Started(f)
    /\ fn = NoCall

(***************************************************************************)
(* Spec: the symbol table, over the .text and .bss sections.               *)
(***************************************************************************)
Init == Encoding(NoLimit)

Next ==
    \/ Gsym
    \/ Fsym
    \/ AddGlobal
    \/ AddBss
    \/ AddLabel
    \/ UseText
    \/ UseBss

Spec == Init /\ [][Next]_vars

(***************************************************************************)
(* SpecSect: the section store.                                            *)
(***************************************************************************)
NextSect ==
    \/ AddSect
    \/ UseText
    \/ UseData
    \/ UseBss

SpecSect == Init /\ [][NextSect]_vars

(***************************************************************************)
(* SpecEmit: the recorder and the layout helpers.                          *)
(***************************************************************************)
NextEmit ==
    \/ Emit
    \/ AddRel
    \/ AlignPc
    \/ Strz
    \/ Bytes
    \/ AdvancePc
    \/ UseText
    \/ UseData

SpecEmit == Init /\ [][NextEmit]_vars

(***************************************************************************)
(* SpecRecord: the recorder alone: emitted values, relocation placeholders *)
(* and strings, over the .text and .data sections.                         *)
(***************************************************************************)
NextRecord ==
    \/ Emit
    \/ AddRel
    \/ Strz
    \/ AdvancePc
    \/ UseText
    \/ UseData

SpecRecord == Init /\ [][NextRecord]_vars

(***************************************************************************)
(* SpecCore: every operation of the core, in runs of at most MaxSteps      *)
(* calls.                                                                  *)
(***************************************************************************)
InitCore == Encoding(MaxSteps)

NextCore == Next \/ NextSect \/ NextEmit

SpecCore == InitCore /\ [][NextCore]_vars

(***************************************************************************)
(* SpecAsm: Assemble, from its call to its return.                         *)
(***************************************************************************)
\* bufio.Writer.Write of n bytes with b bytes buffered and k bytes already
\* passed to the underlying writer: <<buffered, passed>> afterwards.
RECURSIVE bufWrite(_, _, _)
bufWrite(b, k, n) ==
    IF n > BufSize - b
    THEN IF b = 0
         THEN <<0, k + n>>
         ELSE bufWrite(0, k + BufSize, n - (BufSize - b))
    ELSE <<b + n, k>>

InitAsm ==
    /\ phase = "Init"
    /\ arch \in Archs
    /\ os \in OSs
    /\ prog = newprog(arch, os)
    /\ sect = prog.text
    /\ err = <<>>
    /\ w = 0
    /\ sink = 0
    /\ ran = [enc |-> FALSE, wr |-> FALSE, flush |-> FALSE]
    /\ fuel = MaxSteps
    /\ last = NoLast
    /\ fn = NoCall

\* switch arch: run the encoder, or return the error
Dispatch ==
    /\ phase = "Init"
    /\ IF arch = "amd64"
       THEN /\ phase' = "Encoding"
            /\ ran' = [ran EXCEPT !.enc = TRUE]
            /\ UNCHANGED err
       ELSE /\ phase' = "Failed"
            /\ err' = Append(err, <<"unsupported arch", arch>>)
            /\ UNCHANGED ran
    /\ last' = [op |-> "dispatch", ok |-> arch = "amd64", same |-> TRUE]
    /\ UNCHANGED <<arch, os, prog, sect, w, sink, fuel, fn>>

\* the encoder returns: wrap the output, switch os
EncReturn ==
    /\ phase = "Encoding"
    /\ w' = 0
    /\ IF os = "linux"
       THEN /\ phase' = "Writing"
            /\ ran' = [ran EXCEPT !.wr = TRUE]
            /\ UNCHANGED err
       ELSE /\ phase' = "Failed"
            /\ err' = Append(err, <<"unsupported os", os>>)
            /\ UNCHANGED ran
    /\ last' = [op |-> "x86as", ok |-> os = "linux", same |-> TRUE]
    /\ UNCHANGED <<arch, os, prog, sect, sink, fuel, fn>>

\* the object writer writes n bytes to the buffered output
GenelfWrite ==
    /\ phase = "Writing"
    /\ \E n \in 1..MaxOut :
          /\ w + sink + n <= MaxOut
          /\ w' = bufWrite(w, sink, n)[1]
          /\ sink' = bufWrite(w, sink, n)[2]
    /\ last' = [op |-> "write", ok |-> TRUE, same |-> TRUE]
    /\ UNCHANGED <<phase, arch, os, prog, sect, err, ran, fuel, fn>>

\* the object writer panics with a diagnostic
GenelfFail ==
    /\ phase = "Writing"
    /\ phase' = "Failed"
    /\ err' = Append(err, <<"genelf", "">>)
    /\ last' = [op |-> "genelf", ok |-> FALSE, same |-> TRUE]
    /\ UNCHANGED <<arch, os, prog, sect, w, sink, ran, fuel, fn>>

\* the object writer returns: return w.Flush()
Flush ==
    /\ phase = "Writing"
    /\ sink' = sink + w
    /\ w' = 0
    /\ phase' = "Done"
    /\ ran' = [ran EXCEPT !.flush = TRUE]
    /\ last' = [op |-> "flush", ok |-> TRUE, same |-> TRUE]
    /\ UNCHANGED <<arch, os, prog, sect, err, fuel, fn>>

NextAsm ==
    \/ Dispatch
    \/ AddSect
    \/ AddBss
    \/ EncReturn
    \/ GenelfWrite
    \/ GenelfFail
    \/ Flush

SpecAsm == InitAsm /\ [][NextAsm]_vars

(***************************************************************************)
(* SpecHelpers: the two helpers of the package, align2 and isIdent, each   *)
(* called once on an argument drawn from a bounded set.  An int64 is a     *)
(* two's-complement word of WordBits bits; a string is a sequence of       *)
(* runes, given by their code points.                                      *)
(***************************************************************************)
WordBits == 6      \* width of the integer type of align2 (64 in the program)
MaxLen == 3        \* runes in an argument of isIdent

MinInt == 0 - 2^(WordBits - 1)
MaxInt == 2^(WordBits - 1) - 1
Words == MinInt..MaxInt

\* the value an int64 computation leaves: v modulo 2^WordBits, signed
wrap(v) ==
    LET m == v % 2^WordBits
    IN  IF m > MaxInt THEN m - 2^WordBits ELSE m

\* y <<= 1
shl1(y) == wrap(2 * y)

\* The runes of the arguments: 'a', 'Z', '_', '1', '-', U+00E9 (a Latin
\* letter outside ASCII) and U+0663 (an Arabic-Indic digit).
Runes == {97, 90, 95, 49, 45, 233, 1635}

\* unicode.IsLetter and unicode.IsDigit on Runes
IsLetter(r) == r \in (65..90) \cup (97..122) \cup {233}
IsDigit(r) == r \in (48..57) \cup {1635}

Idents == UNION {[1..n -> Runes] : n \in 0..MaxLen}

\* the loop of isIdent, from the i-th rune of s on
RECURSIVE isIdentFrom(_, _)
isIdentFrom(s, i) ==
    IF i > Len(s) THEN TRUE
    ELSE LET r == s[i]
             isAlpha == r = 95 \/ IsLetter(r)
         IN  IF i = 1 /\ ~isAlpha THEN FALSE
             ELSE IF i > 1 /\ ~isAlpha /\ ~IsDigit(r) THEN FALSE
             ELSE isIdentFrom(s, i + 1)

isIdent(s) == isIdentFrom(s, 1)

Align2Calls == {[f |-> "align2", x |-> x, y |-> 0, pc |-> "entry"] : x \in Words}
IsIdentCalls == {[f |-> "isIdent", s |-> s, ret |-> FALSE, pc |-> "entry"] : s \in Idents}

InitHelpers ==
    /\ Started(NoLimit)
    /\ fn \in Align2Calls \cup IsIdentCalls

Rest == <<phase, arch, os, prog, sect, err, w, sink, ran, fuel, last>>

\* y := int64(1)
Align2Enter ==
    /\ fn.f = "align2"
    /\ fn.pc = "entry"
    /\ fn' = [fn EXCEPT !.y = 1, !.pc = "loop"]
    /\ UNCHANGED Rest

\* for y < x { y <<= 1 }: one iteration
Align2Shift ==
    /\ fn.f = "align2"
    /\ fn.pc = "loop"
    /\ fn.y < fn.x
    /\ fn' = [fn EXCEPT !.y = shl1(fn.y)]
    /\ UNCHANGED Rest

\* return y
Align2Return ==
    /\ fn.f = "align2"
    /\ fn.pc = "loop"
    /\ ~(fn.y < fn.x)
    /\ fn' = [fn EXCEPT !.pc = "done"]
    /\ UNCHANGED Rest

IsIdentCall ==
    /\ fn.f = "isIdent"
    /\ fn.pc = "entry"
    /\ fn' = [fn EXCEPT !.ret = isIdent(fn.s), !.pc = "done"]
    /\ UNCHANGED Rest

NextHelpers ==
    \/ Align2Enter
    \/ Align2Shift
    \/ Align2Return
    \/ IsIdentCall

SpecHelpers == InitHelpers /\ [][NextHelpers]_vars

(***************************************************************************)
(* Properties.                                                             *)
(***************************************************************************)
Sections == 1..Len(prog.smem)
SymRecs == 1..Len(prog.ymem)
Range(q) == {q[i] : i \in 1..Len(q)}
Typed(n) == prog.syms[n] # nil /\ prog.ymem[prog.syms[n]].typ # sNONE

\* C1: there is at most one symbol record per name.  The symbol map and the
\* declaration-order list hold the same records, each filed under its own
\* name, no two entries of the declaration-order list have the same name,
\* and gsym for a name in the map, whatever the section, returns the mapped
\* record and adds nothing to the map, to the declaration-order list or to
\* any section's symbol list.
C1_OneRecordPerName ==
    /\ {prog.syms[n] : n \in MapNames} \ {nil} = Range(prog.osyms)
    /\ \A n \in MapNames : prog.syms[n] # nil => prog.ymem[prog.syms[n]].name = n
    /\ \A i, j \in 1..Len(prog.osyms) :
          prog.ymem[prog.osyms[i]].name = prog.ymem[prog.osyms[j]].name => i = j
    /\ \A n \in MapNames, s \in Sections :
          prog.syms[n] # nil =>
             LET r == gsym(as, n, s) IN
             /\ r.ret = prog.syms[n]
             /\ r.diag = <<>>
             /\ r.prog.syms = prog.syms
             /\ r.prog.osyms = prog.osyms
             /\ r.prog.ymem = prog.ymem
             /\ \A t \in Sections : r.prog.smem[t].syms = prog.smem[t].syms

\* gsym has just been called for a name that was in the map, with two
\* symbols declared.
C1_Witness ==
    /\ last = [op |-> "gsym", ok |-> TRUE, same |-> TRUE]
    /\ Len(prog.osyms) = 2

\* C2: a symbol whose type is not none keeps that type in every step of the
\* core, and a label keeps its offset, a bss symbol its size and its
\* allocated flag.
C2_TypedSymbolImmutable ==
    [][\A i \in SymRecs :
          prog.ymem[i].typ # sNONE =>
             /\ i <= Len(prog'.ymem)
             /\ prog'.ymem[i].typ = prog.ymem[i].typ
             /\ prog'.ymem[i].name = prog.ymem[i].name
             /\ prog.ymem[i].typ = sLABEL => prog'.ymem[i].off = prog.ymem[i].off
             /\ prog.ymem[i].typ = sBSS =>
                   /\ prog'.ymem[i].size = prog.ymem[i].size
                   /\ prog'.ymem[i].allocated = prog.ymem[i].allocated]_vars

\* addglobal has just changed a symbol while every symbol is typed, a label
\* among them: it acted on a typed symbol.
C2_Witness ==
    /\ last = [op |-> "addglobal", ok |-> TRUE, same |-> FALSE]
    /\ SymRecs # {}
    /\ \A i \in SymRecs : prog.ymem[i].typ # sNONE
    /\ \E i \in SymRecs : prog.ymem[i].typ = sLABEL

RECURSIVE AllocatedSize(_, _)
AllocatedSize(p, q) ==
    IF q = <<>> THEN 0
    ELSE (IF p.ymem[Head(q)].allocated THEN p.ymem[Head(q)].size ELSE 0)
         + AllocatedSize(p, Tail(q))

BssBlockSum(p) ==
    p.smem[p.bss].blocksize = AllocatedSize(p, p.smem[p.bss].blocks)

\* C3: a successful addbss(name, size, allocated) adds size to the block size
\* of the bss section when allocated and nothing otherwise, and changes the
\* block size of no other section, whichever section the symbol was created
\* in; so the block size of the bss section is the sum of the sizes of the
\* allocated symbols of its block list.
C3_BssBlockSize ==
    [][\A n \in SymNames, z \in Sizes, al \in BOOLEAN :
          (last'.op = "addbss" /\ last'.ok /\ Call("addbss", addbss(as, n, z, al))) =>
             /\ prog'.smem[prog.bss].blocksize =
                   prog.smem[prog.bss].blocksize + (IF al THEN z ELSE 0)
             /\ \A s \in Sections \ {prog.bss} :
                   prog'.smem[s].blocksize = prog.smem[s].blocksize
             /\ BssBlockSum(prog')]_vars

\* C4: addbss on a name whose symbol has a type fails with the "already
\* declared" diagnostic of that name and changes nothing of the program.
C4_BssRedeclareFails ==
    [][\A n \in SymNames, z \in Sizes, al \in BOOLEAN :
          (last'.op = "addbss" /\ Typed(n) /\ Call("addbss", addbss(as, n, z, al))) =>
             /\ ~last'.ok
             /\ phase' = "Failed"
             /\ err' = <<<<"already declared", n>>>>
             /\ prog' = prog
             /\ sect' = sect]_vars

\* addbss has just failed on a name declared as bss.
C4_Witness ==
    /\ last = [op |-> "addbss", ok |-> FALSE, same |-> TRUE]
    /\ phase = "Failed"
    /\ \E n \in SymNames :
          /\ err = <<<<"already declared", n>>>>
          /\ prog.syms[n] # nil
          /\ prog.ymem[prog.syms[n]].typ = sBSS

\* C5: addlabel on a symbol that is a label succeeds and changes nothing when
\* the offset is the label's, whatever the position and the current
\* section, and fails with the "already declared" diagnostic, changing
\* nothing either, when the offset differs.
C5_LabelRestated ==
    [][\A n \in SymNames, o \in Offs, pc \in Pcs :
          (/\ last'.op = "addlabel"
           /\ prog.syms[n] # nil
           /\ prog.ymem[prog.syms[n]].typ = sLABEL
           /\ Call("addlabel", addlabel(as, n, o, pc))) =>
             /\ prog' = prog
             /\ sect' = sect
             /\ IF prog.ymem[prog.syms[n]].off = o
                THEN last'.ok /\ phase' = phase /\ err' = err
                ELSE /\ ~last'.ok
                     /\ phase' = "Failed"
                     /\ err' = <<<<"already declared", n>>>>]_vars

\* addlabel has just succeeded without a change, while the only label is in
\* the label list of a section that is not the current one.
C5_Witness ==
    /\ last = [op |-> "addlabel", ok |-> TRUE, same |-> TRUE]
    /\ \E s \in Sections \ {sect} : Len(prog.smem[s].labels) = 1
    /\ Len(prog.smem[sect].labels) = 0

SectNamesOk ==
    /\ \A i, j \in 1..Len(prog.sects) :
          prog.smem[prog.sects[i]].name = prog.smem[prog.sects[j]].name => i = j
    /\ \A i \in 1..Len(prog.sects) :
          prog.smem[prog.sects[i]].name \notin ReservedNames \cup {""}

\* C6: in every reachable state, addsect with a name that is neither empty
\* nor reserved and a valid type keyword makes the section of that name
\* current when there is one, leaving the section list and that section's
\* flags and type as they were, and otherwise appends one section, which
\* becomes current; and the user sections have pairwise distinct names,
\* none empty, none reserved.
C6_SelectNoDuplicate ==
    /\ SectNamesOk
    /\ \A n \in AllSectNames \ (ReservedNames \cup {""}), f \in Flags,
          t \in TypeKeywords :
          LET r == addsect(as, n, f, t) IN
          /\ r.diag = <<>>
          /\ IF findsect(prog, n) # nil
             THEN /\ r.sect = findsect(prog, n)
                  /\ prog.smem[r.sect].name = n
                  /\ r.prog = prog
             ELSE /\ r.prog.sects = Append(prog.sects, r.sect)
                  /\ r.sect = Len(prog.smem) + 1
                  /\ r.prog.smem = Append(prog.smem, newsection(n, f, xtypOf(t)))
                  /\ xtypOf(t) # stNONE
                  /\ [r.prog EXCEPT !.smem = prog.smem, !.sects = prog.sects] = prog

\* addsect has just switched to the first of two user sections.
C6_Witness ==
    /\ last = [op |-> "addsect", ok |-> TRUE, same |-> FALSE]
    /\ Len(prog.sects) = 2
    /\ sect = prog.sects[1]

\* C7: addsect fails, changing neither the current section nor the section
\* list, when the name is empty or reserved or the type keyword is not
\* progbits, nobits or note, also when a section of that name exists.
C7_SelectRejects ==
    \A n \in AllSectNames, f \in Flags, t \in AllTypeInputs :
       (n = "" \/ n \in ReservedNames \/ t \notin {"progbits", "nobits", "note"}) =>
          LET r == addsect(as, n, f, t) IN
          /\ r.diag # <<>>
          /\ r.sect = sect
          /\ r.prog = prog

\* addsect has just failed on an unknown type keyword while two user
\* sections exist, so with every user name naming an existing section.
C7_Witness ==
    /\ last = [op |-> "addsect", ok |-> FALSE, same |-> TRUE]
    /\ err = <<<<"unknown section type", "bogus">>>>
    /\ Len(prog.sects) = 2

\* C8: alignpc(align, value) appends (align - size mod align) mod align
\* bytes of value, size being the byte size of the current section, so that
\* the byte size becomes a multiple of align, whatever the position counter.
C8_AlignToByteSize ==
    [][\A al \in Aligns, f \in Fills :
          (last'.op = "alignpc" /\ Call("alignpc", alignpc(as, al, f))) =>
             LET z == prog.smem[sect].size
                 pad == (al - (z % al)) % al
             IN  /\ prog'.smem[sect].size = z + pad
                 /\ prog'.smem[sect].size % al = 0
                 /\ prog'.smem[sect].inst =
                       Append(prog.smem[sect].inst,
                              [op |-> opBYTES, code |-> [i \in 1..pad |-> f]])]_vars

\* C9: a run of Assemble that returns an error (unsupported arch or os, a
\* diagnostic of the encoder or of the object writer) has passed no byte to
\* the output.  The output is taken to accept every write.
C9_NoOutputOnFailure == phase = "Failed" => sink = 0

Forward ==
    {<<"Init", "Encoding">>, <<"Init", "Failed">>, <<"Encoding", "Encoding">>,
     <<"Encoding", "Writing">>, <<"Encoding", "Failed">>,
     <<"Writing", "Writing">>, <<"Writing", "Done">>, <<"Writing", "Failed">>}

OrchestratorOk ==
    /\ Len(err) <= 1
    /\ err # <<>> <=> phase = "Failed"
    /\ arch # "amd64" =>
          /\ ~ran.enc /\ ~ran.wr
          /\ phase \in {"Init", "Failed"}
          /\ phase = "Failed" => err = <<<<"unsupported arch", arch>>>>
    /\ phase \in {"Encoding", "Writing", "Done"} => ran.enc
    /\ ran.wr => ran.enc /\ os = "linux"
    /\ phase \in {"Writing", "Done"} => ran.wr
    /\ (err # <<>> /\ err[1][1] = "unsupported os") => ran.enc /\ ~ran.wr /\ os # "linux"
    /\ (err # <<>> /\ err[1][1] # "genelf") => ~ran.wr
    /\ ran.flush <=> phase = "Done"
    /\ phase = "Done" => w = 0

\* C10: Assemble only moves forward through Init, Encoding, Writing and
\* Done or Failed, and the first error is the one returned.  An unsupported
\* arch fails before the encoder or the writer runs, whatever the os; the
\* writer runs only after the encoder returned without a diagnostic; an
\* unsupported os is reported only after the encoder returned; Done is
\* reached only by the flush; no run returns more than one error.
C10_Orchestrator ==
    /\ []OrchestratorOk
    /\ [][/\ <<phase, phase'>> \in Forward
          /\ (phase = "Encoding" /\ phase' = "Writing") => err' = <<>>
          /\ (phase = "Encoding" /\ phase' = "Failed") => ~ran'.wr
          /\ ran.enc => ran'.enc
          /\ ran.wr => ran'.wr]_vars

\* Assemble has returned the arch error for an unsupported arch and an
\* unsupported os.
C10_Witness ==
    /\ phase = "Failed"
    /\ arch = "arm"
    /\ os = "plan9"
    /\ err = <<<<"unsupported arch", "arm">>>>


RECURSIVE PayloadSum(_)
PayloadSum(q) ==
    IF q = <<>> THEN 0 ELSE Len(Head(q).code) + PayloadSum(Tail(q))

SizeIsPayloadSum ==
    \A s \in Sections : prog.smem[s].size = PayloadSum(prog.smem[s].inst)

\* C11: the size of a section never decreases: every step of the encoder
\* (emit, bytes, strz, alignpc, addrel, section selection and creation, the
\* symbol operations) leaves the size of every existing section at least
\* what it was, and in every state the size of a section is the sum of the
\* payload lengths of the instructions of its inst list.
C11_SizeMonotone ==
    /\ []SizeIsPayloadSum
    /\ [][\A s \in Sections : prog'.smem[s].size >= prog.smem[s].size]_vars

C11_Witness ==
    /\ last.op = "addrel"
    /\ last.ok
    /\ Len(prog.smem[sect].inst) = 2
    /\ prog.smem[sect].size > 0

IsPow2(v) == \E k \in 0..(WordBits - 2) : v = 2^k

\* the loop of align2 can no longer end: its condition holds and the shift
\* leaves y as it is
Align2Stuck ==
    /\ fn.pc = "loop"
    /\ fn.y < fn.x
    /\ shl1(fn.y) = fn.y

\* C12: for every x >= 1 of the integer type, align2(x) terminates and
\* returns the smallest power of two that is at least x; for x = 1, 5, 8, 9
\* it returns 1, 8, 8, 16.
C12_NextPowerOfTwo ==
    (fn.f = "align2" /\ fn.x >= 1) =>
        /\ ~Align2Stuck
        /\ fn.pc = "done" =>
              /\ IsPow2(fn.y)
              /\ fn.y >= fn.x
              /\ \A q \in Words : (IsPow2(q) /\ q >= fn.x) => fn.y <= q
              /\ fn.x = 1 => fn.y = 1
              /\ fn.x \in {5, 8} => fn.y = 8
              /\ fn.x = 9 => fn.y = 16

\* Within the quarter of the range below, TLC finds align2 returning the
\* smallest power of two that is at least x.
Align2SmallOk ==
    (fn.f = "align2" /\ fn.x >= 1 /\ fn.x <= 2^(WordBits - 2)) =>
        /\ ~Align2Stuck
        /\ fn.pc = "done" =>
              (IsPow2(fn.y) /\ fn.y >= fn.x /\ (fn.y = 1 \/ fn.y < 2 * fn.x))

AsciiLetter(r) == r \in (65..90) \cup (97..122)
AsciiDigit(r) == r \in 48..57

\* s is empty or matches [A-Za-z_][A-Za-z0-9_]*
MatchesIdent(s) ==
    \A i \in 1..Len(s) :
        \/ AsciiLetter(s[i])
        \/ s[i] = 95
        \/ i > 1 /\ AsciiDigit(s[i])

\* C13: isIdent(s) is true exactly when s is empty or matches
\* [A-Za-z_][A-Za-z0-9_]*, for s over ASCII letters, ASCII digits, the
\* underscore, other punctuation, and letters and digits outside ASCII.
C13_IdentGrammar ==
    (fn.f = "isIdent" /\ fn.pc = "done") => (fn.ret <=> MatchesIdent(fn.s))

\* what fsym(k, n) does in the current state
FsymEffect(k, n) ==
    LET r == fsym(as, k, n)
        q == Len(prog.ymem) + 1
    IN  /\ r.diag = <<>>
        /\ r.sect = sect
        /\ IF (k # aVAR /\ k # aPTR) \/ n = ""
           THEN r.ret = nil /\ r.prog = prog
           ELSE IF prog.syms[n] # nil
           THEN r.ret = prog.syms[n] /\ r.prog = prog
           ELSE /\ r.ret = q
                /\ Len(r.prog.ymem) = q
                /\ \A i \in SymRecs : r.prog.ymem[i] = prog.ymem[i]
                /\ r.prog.ymem[q].typ = sUND
                /\ r.prog.ymem[q].exported
                /\ r.prog.ymem[q].name = n
                /\ r.prog.ymem[q].sect = nil
                /\ r.prog.syms[n] = q
                /\ \A o \in MapNames \ {n} : r.prog.syms[o] = prog.syms[o]
                /\ r.prog.osyms = Append(prog.osyms, q)
                /\ r.prog.usyms = Append(prog.usyms, q)
                /\ r.prog.smem = prog.smem
                /\ r.prog.sects = prog.sects
                /\ r.prog.relocs = prog.relocs

AddrelEffect(op) ==
    LET r == addrel(as, op)
        s == sect
        q == Len(prog.rmem) + 1
        i == Len(prog.smem[s].inst) + 1
    IN  /\ r.diag = <<>>
        /\ r.sect = sect
        /\ r.prog.smem[s].inst = Append(prog.smem[s].inst, [op |-> op, code |-> <<>>])
        /\ r.prog.smem[s].size = prog.smem[s].size
        /\ Len(r.prog.rmem) = q
        /\ \A j \in 1..Len(prog.rmem) : r.prog.rmem[j] = prog.rmem[j]
        /\ r.prog.rmem[q].section = s
        /\ r.prog.rmem[q].inst = i
        /\ r.prog.rmem[q].off = prog.smem[s].size
        /\ r.prog.rmem[q].pc = prog.smem[s].pc
        /\ r.prog.relocs = Append(prog.relocs, q)
        /\ r.prog.smem[s].relocs = Append(prog.smem[s].relocs, q)
        /\ \A o \in Sections \ {s} : r.prog.smem[o] = prog.smem[o]

RECURSIVE LocalRelocs(_)
LocalRelocs(s) ==
    IF s = 0 THEN 0 ELSE Len(prog.smem[s].relocs) + LocalRelocs(s - 1)

OfSection(q, s) == prog.rmem[q].section = s

RelocListsOk ==
    /\ Len(prog.relocs) = LocalRelocs(Len(prog.smem))
    /\ \A i, j \in 1..Len(prog.relocs) : prog.relocs[i] = prog.relocs[j] => i = j
    /\ \A i \in 1..Len(prog.relocs), s \in Sections :
           prog.relocs[i] \in Range(prog.smem[s].relocs)
               <=> OfSection(prog.relocs[i], s)
    /\ \A s \in Sections :
           prog.smem[s].relocs = SelectSeq(prog.relocs, LAMBDA q : OfSection(q, s))

\* C15: addrel appends one instruction without payload to the current
\* section and leaves its size alone, and records one relocation bound to
\* that section and that instruction, with off the size and pc the position
\* counter of the section; the one record is appended to the list of the
\* program and to the list of the section.  So in every state the list of
\* the program is as long as the lists of the sections together, each of
\* its entries is in the list of its own section and in no other, and the
\* list of a section is the list of the program restricted to the section,
\* in the same order.
C15_RelocLists ==
    /\ \A op \in {opNOP, opQUAD} : AddrelEffect(op)
    /\ RelocListsOk

C15_Witness ==
    /\ last.op = "addrel"
    /\ last.ok
    /\ Len(prog.relocs) = 2
    /\ prog.rmem[prog.relocs[1]].section # prog.rmem[prog.relocs[2]].section
    /\ prog.rmem[prog.relocs[2]].pc = 1

\* bytes that code writes for one value of a supported type
KindLen(k) ==
    CASE k = "nil" -> 0
      [] k \in {"byte", "int"} -> 1
      [] k = "uint16" -> 2
      [] k = "uint32" -> 4
      [] k = "uint64" -> 8

Supported(v) ==
    \A i \in 1..Len(v) :
        v[i].kind \in {"nil", "byte", "int", "uint16", "uint32", "uint64"}

RECURSIVE PayloadLen(_)
PayloadLen(v) ==
    IF v = <<>> THEN 0 ELSE KindLen(Head(v).kind) + PayloadLen(Tail(v))

\* what emit(op, v...) does in the current state
EmitEffect(op, v) ==
    LET r == emit(as, op, v)
        s == sect
        n == Len(prog.smem[s].inst)
    IN  IF Supported(v)
        THEN LET new == r.prog.smem[s]
                 old == prog.smem[s]
                 k == PayloadLen(v)
             IN  /\ r.diag = <<>>
                 /\ r.sect = sect
                 /\ Len(new.inst) = n + 1
                 /\ SubSeq(new.inst, 1, n) = old.inst
                 /\ new.inst[n + 1].op = op
                 /\ Len(new.inst[n + 1].code) = k
                 /\ new.size = old.size + k
                 /\ \A o \in Sections \ {s} : r.prog.smem[o] = prog.smem[o]
        ELSE /\ r.diag # <<>>
             /\ r.diag[1] = "unknown emit type"
             /\ r.prog = prog
             /\ r.sect = sect

\* C16: emit either appends exactly one instruction to the current section
\* and adds to its size the length of the encoded payload (one byte for a
\* value emitted as a single byte, 2, 4 and 8 bytes for an unsigned integer
\* of 16, 32 and 64 bits, none for nil), or, when a value is of a type it
\* does not support, fails with the unknown-emit-type diagnostic, appends
\* nothing and leaves the section as it was.
C16_EmitEffect == \A v \in EmitArgs : EmitEffect(opQUAD, v)

C16_Witness ==
    /\ last.op = "emit"
    /\ ~last.ok
    /\ last.same
    /\ err = <<<<"unknown emit type", "string">>>>
    /\ Len(prog.smem[sect].inst) = 2
    /\ prog.smem[sect].size = 8

\* what strz(str) does on the current section
StrzEffect(str) ==
    LET p == strz(prog, sect, str)
        s == sect
    IN  /\ p.smem[s].strings =
               Append(prog.smem[s].strings,
                      [off |-> prog.smem[s].size, size |-> Len(str) + 1,
                       pc |-> prog.smem[s].pc])
        /\ p.smem[s].inst =
               Append(prog.smem[s].inst, [op |-> opSTRZ, code |-> str \o <<0>>])
        /\ p.smem[s].size = prog.smem[s].size + Len(str) + 1
        /\ \A o \in Sections \ {s} : p.smem[o] = prog.smem[o]

SpansOk(s) ==
    LET sp == prog.smem[s].strings
    IN  /\ \A i, j \in 1..Len(sp) : i < j => sp[i].off + sp[i].size <= sp[j].off
        /\ \A i, j \in 1..Len(sp) : i < j => sp[i].off < sp[j].off
        /\ \A i \in 1..Len(sp) : sp[i].off + sp[i].size <= prog.smem[s].size

\* C17: strz records exactly one span, with off the size of the section
\* before the call, size the length of the text plus one and pc the position
\* counter of the section, appends one instruction whose payload is the text
\* followed by a NUL, and adds the length of the text plus one to the size.
\* So in every state the spans of a section are in strictly increasing order
\* of offset, no two overlap, and each ends at or before the size of the
\* section.
C17_StringSpans ==
    /\ \A str \in Strs : StrzEffect(str)
    /\ \A s \in Sections : SpansOk(s)

C17_Witness ==
    /\ last.op = "strz"
    /\ Len(prog.smem[sect].strings) = 2
    /\ prog.smem[sect].strings[1].off = 0
    /\ prog.smem[sect].strings[2].off = 1
    /\ prog.smem[sect].size = 3

\* C18: no operation of the assembler core advances a position counter:
\* emit, bytes, strz, alignpc, addrel, addlabel, addbss, addglobal, gsym,
\* fsym, addsect and the selection of a section leave the pc of every
\* section as it was.  Only the step of the architecture encoder writes it.
C18_PcFrame ==
    [][last'.op # "advancepc" =>
          \A s \in Sections : prog'.smem[s].pc = prog.smem[s].pc]_vars

C18_Witness ==
    /\ last.op = "alignpc"
    /\ last.ok
    /\ prog.smem[sect].pc = 1
    /\ prog.smem[sect].size = 1

\* the call fails with the duplicate-declaration diagnostic for n and
\* leaves the program and the current section as they are
FailsDeclared(r, n) ==
    /\ r.diag = <<"already declared", n>>
    /\ r.prog = prog
    /\ r.sect = sect

InLabelOrBlockList(q) ==
    \E s \in Sections :
        q \in Range(prog.smem[s].labels) \cup Range(prog.smem[s].blocks)

\* C19: a name referenced before it is declared can never be defined.  Once
\* fsym has made the name an undefined external, every addlabel and every
\* addbss for it fails with the duplicate-declaration diagnostic and changes
\* nothing, so the symbol stays of type sUND and is in no label list and no
\* list of bss blocks; and addlabel on a symbol of type sBSS or sUND always
\* fails.
C19_ExternNeverDefined ==
    \A n \in SymNames :
        LET q == prog.syms[n] IN
        q # nil =>
            /\ prog.ymem[q].typ \in {sUND, sBSS} =>
                   \A o \in Offs, pc \in Pcs :
                       FailsDeclared(addlabel(as, n, o, pc), n)
            /\ prog.ymem[q].typ = sUND =>
                   /\ \A z \in Sizes, al \in BOOLEAN :
                          FailsDeclared(addbss(as, n, z, al), n)
                   /\ ~InLabelOrBlockList(q)
                   /\ q \in Range(prog.usyms)

C19_Witness ==
    /\ last.op = "addlabel"
    /\ ~last.ok
    /\ last.same
    /\ err = <<<<"already declared", "L">>>>
    /\ prog.syms["L"] # nil
    /\ prog.ymem[prog.syms["L"]].typ = sUND

\* how many times q occurs in the list l
Occ(l, q) == Cardinality({i \in 1..Len(l) : l[i] = q})

RECURSIVE OccAll(_, _, _)
\* how many times q occurs in the lists named f of the sections 1..s
OccAll(f, q, s) ==
    IF s = 0 THEN 0 ELSE Occ(prog.smem[s][f], q) + OccAll(f, q, s - 1)

InSects(f, q) == OccAll(f, q, Len(prog.smem))

\* C20: the symbol lists stay consistent.  Every symbol of usyms is of type
\* sUND, exported and without owning section, and is in the syms, labels and
\* blocks list of no section; every symbol of a label list is of type sLABEL
\* and occurs once in the label lists of all sections together; every
\* symbol of a list of bss blocks is of type sBSS and occurs once; every
\* symbol of osyms is either in the syms list of exactly one section or in
\* usyms, and not both.
C20_SymbolLists ==
    /\ \A q \in Range(prog.usyms) :
           /\ prog.ymem[q].typ = sUND
           /\ prog.ymem[q].exported
           /\ prog.ymem[q].sect = nil
           /\ InSects("syms", q) = 0
           /\ InSects("labels", q) = 0
           /\ InSects("blocks", q) = 0
    /\ \A s \in Sections :
           /\ \A q \in Range(prog.smem[s].labels) :
                  prog.ymem[q].typ = sLABEL /\ InSects("labels", q) = 1
           /\ \A q \in Range(prog.smem[s].blocks) :
                  prog.ymem[q].typ = sBSS /\ InSects("blocks", q) = 1
    /\ \A q \in Range(prog.osyms) :
           \/ InSects("syms", q) = 1 /\ q \notin Range(prog.usyms)
           \/ InSects("syms", q) = 0 /\ Occ(prog.usyms, q) = 1

C20_Witness ==
    /\ Len(prog.usyms) = 1
    /\ Len(prog.osyms) = 2
    /\ \E s \in Sections :
           /\ Len(prog.smem[s].labels) = 1
           /\ prog.ymem[prog.smem[s].labels[1]].sect # s

====
